---- MODULE Spec2Model ----
(***************************************************************************)
(* The download lifecycle manager of zim-library-manager                   *)
(* (src/src/services/settings.ts, lines 74-524: the downloader and the     *)
(* disk helpers).                                                          *)
(*                                                                         *)
(* Every exported operation is an async function.  Each `await` is a       *)
(* suspension point, so an operation is modelled as a sequence of steps,   *)
(* one per stretch of code between two awaits, with the position kept in   *)
(* the caller's record (pc).  A database statement takes effect in the     *)
(* step that awaits it.  Steps that read only the immutable catalog are    *)
(* merged with the step before them.                                       *)
(*                                                                         *)
(* Spec    interleaves the steps of all callers and event handlers.        *)
(* SeqSpec runs every operation and every event handler to completion      *)
(*         before the next one begins (a sequence of calls and events).    *)
(*                                                                         *)
(* The pid column of downloads is written by spawnWget and by the          *)
(* handlers but read by no operation; it is left out of the rows.          *)
(***************************************************************************)
EXTENDS Integers, Sequences, FiniteSets, TLC

\* ---------------------------------------------------------------- bounds
NumCallers == 2
MaxCalls == 3
MaxProcs == 2
MaxRestarts == 1

Callers == 1 .. NumCallers
Null == "null"

VARIABLES
  downloads,        \* the downloads table: a set of rows
  nextId,           \* the next AUTOINCREMENT id of downloads
  localZims,        \* the local_zims table: a set of rows
  activeProcesses,  \* Map<number, ChildProcess>: download id -> process
  procs,            \* every ChildProcess spawned so far (index = process)
  calls,            \* per caller: the operation in flight and its locals
  ncalls,           \* number of operations invoked so far
  restarts,         \* number of manager restarts so far
  downloadFolder,   \* the downloadFolder row of the settings table
  files,            \* the file system: path -> size of the file in bytes
  mirror            \* a metadata document and the URL resolved from it

vars == <<downloads, nextId, localZims, activeProcesses, procs, calls,
          ncalls, restarts, downloadFolder, files, mirror>>

\* --------------------------------------------------------------- catalog
\* catalog_books rows (schema.ts 8-29): url and size are nullable; a
\* nullable column is a set with at most one element.
Books == {"b1", "b2", "b3"}
BookIds == Books \cup {"bx"}

Catalog ==
  [b \in Books |->
     CASE b = "b1" -> [url |-> {"u1"}, size |-> {1000}, date |-> "2024-01"]
       [] b = "b2" -> [url |-> {"u2"}, size |-> {},     date |-> "2024-02"]
       [] b = "b3" -> [url |-> {},     size |-> {2000}, date |-> "2024-03"]]

getBookById(b) == IF b \in Books THEN {Catalog[b]} ELSE {}

\* x ?? d
Coalesce(s, d) == IF s = {} THEN d ELSE CHOOSE x \in s : TRUE

\* Byte counts are JavaScript numbers, exact far beyond 2^31.  A count is
\* kept as <<g, r>>, standing for g * 2^30 + r with 0 <= r < 2^30.
Limb == 1024 * 1024 * 1024
BigOf(n) == <<n \div Limb, n % Limb>>
BigAdd(a, b) == <<a[1] + b[1] + ((a[2] + b[2]) \div Limb), (a[2] + b[2]) % Limb>>
BigGeq(a, b) == a[1] > b[1] \/ (a[1] = b[1] /\ a[2] >= b[2])
\* kb * 1024
KBToBytes(kb) == <<kb \div (1024 * 1024), (kb % (1024 * 1024)) * 1024>>

\* requiredBytes = (book.size ?? 0) * 1024
RequiredBytes(b) == KBToBytes(Coalesce(Catalog[b].size, 0))

\* DEFAULT_SETTINGS.downloadFolder, and the values the setting may take
DefaultDownloadFolder == "/zim"
Folders == {"/zim", "/data"}

\* the file name the metadata document of a book declares: those of b1
\* and b2 declare the same name
MetaFileName(b) == IF b = "b3" THEN "b.zim" ELSE "a.zim"

\* join(downloadFolder, fileName)
JoinPath(dir, name) == dir \o "/" \o name

\* df's "Available" column, in KB, as getDiskSpace may read it: one KB
\* short of 1 GiB, and 1 GiB and 1000 KB
AvailKBs == {1048575, 1049576}

\* getDiskSpace: available = parseInt(data[3], 10) * 1024
DiskAvailable(kb) == KBToBytes(kb)

HasEnoughSpace_Strict(available, required) ==
  /\ BigGeq(available, BigAdd(required, BigOf(1024 * 1024 * 1024)))
  /\ available # BigAdd(required, BigOf(1024 * 1024 * 1024))

\* hasEnoughSpace: available >= required + buffer, buffer = 1024^3
HasEnoughSpace(available, required) ==
  BigGeq(available, BigAdd(required, BigOf(1024 * 1024 * 1024)))

\* the length of the file the URL of a book serves
ZimBytes(b) == IF b = "b1" THEN 1000 * 1024 ELSE 600 * 1024

\* the sizes a file has while the downloader writes it: created and
\* empty, then half written
PartSizes(b) == {0, ZimBytes(b) \div 2}

\* stat(path): the size of the file, none (ENOENT) when it does not exist
StatSize(path) == IF path \in DOMAIN files THEN {files[path]} ELSE {}

\* the file at path has size n
Written(path, n) ==
  [x \in DOMAIN files \cup {path} |-> IF x = path THEN n ELSE files[x]]

\* ------------------------------------------------------- mirror resolver
\* resolveMeta4Url (100-135): the <url> elements of the metadata document
\* in document order; url: the text of the element (its position stands
\* for it); priority: the priority attribute, a set with at most one
\* element as it may be absent.
MaxUrls == 3
Priorities == {1, 2, 3, 99, 100}
Metas ==
  UNION {{[i \in 1 .. n |-> [url |-> i, priority |-> f[i]]] :
            f \in [1 .. n -> {{}} \cup {{q} : q \in Priorities}]} :
         n \in 1 .. MaxUrls}

\* parseInt(u["@_priority"] ?? "99", 10), and 99 for an element without
\* attributes (124-127)
PriorityOf(u) == Coalesce(u.priority, 99)

\* urls.sort((a, b) => a.priority - b.priority) (128): Array.prototype.sort
\* is stable, elements of equal priority keep their order
InsertUrl(x, sorted) ==
  LET k == Cardinality({i \in DOMAIN sorted :
                          PriorityOf(sorted[i]) <= PriorityOf(x)})
  IN SubSeq(sorted, 1, k) \o <<x>> \o SubSeq(sorted, k + 1, Len(sorted))

RECURSIVE SortUrls(_)
SortUrls(urls) ==
  IF urls = <<>> THEN <<>>
  ELSE InsertUrl(urls[Len(urls)], SortUrls(SubSeq(urls, 1, Len(urls) - 1)))

SelectUrl_First(meta) == meta[1].url

\* the URL chosen (119-131): the only one, or the first after the sort
SelectUrl(meta) ==
  IF Len(meta) = 1 THEN meta[1].url ELSE SortUrls(meta)[1].url

\* no document, no result (out: the result, a sequence of at most one URL)
NoMirror == [meta |-> <<>>, out |-> <<>>]

\* ------------------------------------------------------------------ rows
Ids == 1 .. (MaxCalls + 1)
ProcIds == 1 .. MaxProcs

HasRow(id) == \E r \in downloads : r.id = id
Row(id) == CHOOSE r \in downloads : r.id = id
RowsOf(b) == {r \in downloads : r.bookId = b}

\* select().from(downloads).where(eq(downloads.bookId, b)).limit(1):
\* the first row in rowid order, 0 when there is none
ExistingFor(b) ==
  IF RowsOf(b) = {} THEN 0
  ELSE CHOOSE i \in {r.id : r \in RowsOf(b)} :
         \A j \in {r.id : r \in RowsOf(b)} : i <= j

\* update(downloads).set({status, error}).where(eq(downloads.id, id))
SetFailed(rows, id, err) ==
  {IF r.id = id THEN [r EXCEPT !.status = "failed", !.error = err] ELSE r :
     r \in rows}

\* update(downloads).set({status}).where(eq(downloads.id, id))
SetStatus(rows, id, st) ==
  {IF r.id = id THEN [r EXCEPT !.status = st] ELSE r : r \in rows}

\* ------------------------------------------------------------- registry
Registered(id) == id \in DOMAIN activeProcesses
MapGet(id) == IF Registered(id) THEN activeProcesses[id] ELSE 0
MapSet(id, p) ==
  [x \in DOMAIN activeProcesses \cup {id} |->
     IF x = id THEN p ELSE activeProcesses[x]]
MapDelete(id) ==
  [x \in DOMAIN activeProcesses \ {id} |-> activeProcesses[x]]

\* ------------------------------------------------------------ processes
\* state: running | stopped (SIGSTOP) | exited (close event pending)
\*      | nopid (spawn failed, error event pending) | closed | gone
\* pc: the position of the process's close/error handler
Live(p) == procs[p].state \in {"running", "stopped"}
HasPid(p) == procs[p].state # "nopid"

NewProc(id, b, path, name, st) ==
  [id |-> id, book |-> b, path |-> path, name |-> name, state |-> st,
   code |-> Null, term |-> FALSE, pc |-> "none", seen |-> Null,
   stats |-> {}, sample |-> {}]

\* process.kill(sig): no effect on a process that has exited or never ran
Kill(p, sig) ==
  IF ~Live(p) THEN procs
  ELSE IF sig = "SIGSTOP"
    THEN [procs EXCEPT ![p].state = "stopped"]
  ELSE IF sig = "SIGCONT"
    THEN IF procs[p].state = "stopped" /\ procs[p].term
           THEN [procs EXCEPT ![p].state = "exited", ![p].code = "null"]
           ELSE [procs EXCEPT ![p].state = "running"]
  ELSE \* SIGTERM: a stopped process keeps it pending until it is continued
    IF procs[p].state = "stopped"
      THEN [procs EXCEPT ![p].term = TRUE]
      ELSE [procs EXCEPT ![p].state = "exited", ![p].code = "null",
                         ![p].term = TRUE]

\* --------------------------------------------------------------- callers
\* op, pc: the operation and the position in it; book, id: its argument;
\* ex, rec, proc, req, avail, path: the locals existing[0].id,
\* downloadRecord.id, process, requiredBytes, diskSpace.available,
\* filePath; res: the outcome.
\* was (history, read by no operation): the state of the process when
\* the call signalled it.
IdleCall ==
  [op |-> "none", pc |-> "idle", book |-> Null, id |-> 0, ex |-> 0,
   rec |-> 0, proc |-> 0, res |-> Null, req |-> <<0, 0>>,
   avail |-> <<0, 0>>, path |-> Null,
   was |-> Null, raced |-> FALSE, progress |-> {}]

InFlight(c) == calls[c].pc \notin {"idle", "done"}
Busy(c) == calls[c].pc # "idle"

Done(call, res) ==
  [call EXCEPT !.pc = "done", !.res = res, !.ex = 0, !.path = Null]

\* An operation may begin: the caller is free and the bounds leave room
\* for it (every start may spawn one process and insert one row).
\* no call is at the point of returning
Settled == \A c \in Callers : calls[c].pc # "done"

\* Callers are interchangeable: a new operation takes the first free one.
MayInvoke(c) ==
  /\ Settled
  /\ calls[c].pc = "idle"
  /\ \A d \in Callers : d < c => calls[d].pc # "idle"
  /\ ncalls < MaxCalls

\* the ids a caller may name: those handed out so far and one unknown id
KnownId(id) == id <= nextId

MaySpawn ==
  Len(procs)
    + Cardinality({d \in Callers : InFlight(d) /\ calls[d].op \in {"start", "resume"}})
    < MaxProcs

Invoked(c, op, id) == [IdleCall EXCEPT !.op = op, !.id = id]

Init ==
  /\ downloads = {}
  /\ nextId = 1
  /\ localZims = {}
  /\ activeProcesses = [x \in {} |-> 0]
  /\ procs = <<>>
  /\ calls = [c \in Callers |-> IdleCall]
  /\ ncalls = 0
  /\ restarts = 0
  /\ downloadFolder = DefaultDownloadFolder
  /\ files = [x \in {} |-> 0]
  /\ mirror = NoMirror

\* ------------------------------------------------------- startDownload
\* startDownload up to the existing-row lookup (148-173): getBookById,
\* getSetting, getDiskSpace, hasEnoughSpace, resolveMeta4Url.  These steps
\* read the catalog, the disk (kb: what df reports) and the metadata
\* server (ok: a 2xx answer) and no state of the manager, so they are one
\* step.  Also the entry of resumeDownload's fallback (391).
EnterStart(call, b, kb, ok) ==
  LET c0 == [call EXCEPT !.book = b]
  IN IF getBookById(b) = {} THEN Done(c0, "NotFound")
     ELSE IF Catalog[b].url = {} THEN Done(c0, "NoUrl")
     ELSE LET c1 == [c0 EXCEPT !.req = RequiredBytes(b),
                               !.avail = DiskAvailable(kb)]
          IN IF ~HasEnoughSpace(c1.avail, c1.req)
               THEN Done(c1, "InsufficientSpace")
             ELSE IF ~ok THEN Done(c1, "MetaFetchFailed")
             ELSE [c1 EXCEPT !.pc = "s_existing",
                             !.path = JoinPath(downloadFolder, MetaFileName(b))]

\* d is between the first step and the return of a startDownload(b)
InStart(d, b) ==
  /\ calls[d].pc \in {"s_existing", "s_write", "s_reselect", "s_spawn"}
  /\ calls[d].book = b

\* The callers' records when c enters startDownload(b) as `entered`.
\* raced (history, read by no operation): another startDownload of the
\* same book was under way at some moment of this one.
WithStart(c, b, entered) ==
  [d \in Callers |->
     IF d = c
       THEN [entered EXCEPT !.raced = \E e \in Callers \ {c} : InStart(e, b)]
     ELSE IF InStart(d, b) THEN [calls[d] EXCEPT !.raced = TRUE]
     ELSE calls[d]]

\* the row a new download inserts (205-212)
NewDownload(id, b, path) ==
  [id |-> id, bookId |-> b, status |-> "downloading",
   filePath |-> path, bytesDownloaded |-> BigOf(0),
   totalBytes |-> RequiredBytes(b), startedAt |-> "set",
   completedAt |-> Null, error |-> Null]

StartDownload_WriteFirst(c, b) ==
  /\ MayInvoke(c)
  /\ MaySpawn
  /\ \E kb \in AvailKBs, ok \in BOOLEAN :
       calls' = WithStart(c, b, EnterStart(Invoked(c, "start", 0), b, kb, ok))
  /\ ncalls' = ncalls + 1
  /\ IF b \in Books /\ RowsOf(b) = {}
       THEN /\ downloads' = downloads \cup
                 {NewDownload(nextId, b, JoinPath(downloadFolder, MetaFileName(b)))}
            /\ nextId' = nextId + 1
       ELSE UNCHANGED <<downloads, nextId>>
  /\ UNCHANGED <<localZims, activeProcesses, procs, restarts, downloadFolder, files, mirror>>

StartDownload(c, b) ==
  /\ MayInvoke(c)
  /\ MaySpawn
  /\ \E kb \in AvailKBs, ok \in BOOLEAN :
       calls' = WithStart(c, b, EnterStart(Invoked(c, "start", 0), b, kb, ok))
  /\ ncalls' = ncalls + 1
  /\ UNCHANGED <<downloads, nextId, localZims, activeProcesses, procs, restarts, downloadFolder, files, mirror>>

AlreadyActive_Paused(ex) ==
  ex # 0 /\ Row(ex).status = "paused"

\* existing.length > 0 && existing[0].status === "downloading" (182)
AlreadyActive(ex) ==
  ex # 0 /\ Row(ex).status = "downloading"

\* the existing-row lookup and the AlreadyActive test (175-184)
StartExisting(c) ==
  /\ Settled
  /\ calls[c].pc = "s_existing"
  /\ LET ex == ExistingFor(calls[c].book)
     IN calls' = [calls EXCEPT ![c] =
          IF AlreadyActive(ex)
            THEN Done(@, "AlreadyActive")
            ELSE [@ EXCEPT !.pc = "s_write", !.ex = ex]]
  /\ UNCHANGED <<downloads, nextId, localZims, activeProcesses, procs,
                 ncalls, restarts, downloadFolder, files, mirror>>

RestartRow_KeepError(r) ==
  [r EXCEPT !.status = "downloading", !.startedAt = "set"]

RestartRow_Relocate(r) ==
  [r EXCEPT !.status = "downloading", !.startedAt = "set", !.error = Null,
            !.filePath = JoinPath(downloadFolder, MetaFileName(r.bookId))]

\* the update of an existing row (191-198)
RestartRow(r) ==
  [r EXCEPT !.status = "downloading", !.startedAt = "set", !.error = Null]

\* create or update the download record (186-216)
StartWrite(c) ==
  /\ Settled
  /\ calls[c].pc = "s_write"
  /\ IF calls[c].ex # 0
       THEN /\ downloads' = {IF r.id = calls[c].ex THEN RestartRow(r) ELSE r :
                               r \in downloads}
            /\ nextId' = nextId
            /\ calls' = [calls EXCEPT ![c].pc = "s_reselect"]
       ELSE /\ downloads' = downloads \cup
                 {NewDownload(nextId, calls[c].book, calls[c].path)}
            /\ nextId' = nextId + 1
            /\ calls' = [calls EXCEPT ![c].pc = "s_spawn", ![c].rec = nextId]
  /\ UNCHANGED <<localZims, activeProcesses, procs, ncalls, restarts, downloadFolder, files, mirror>>

\* downloadRecord = (await db.select()...)[0] (200-202); a row deleted in
\* between leaves it undefined and downloadRecord.id throws
StartReselect(c) ==
  /\ Settled
  /\ calls[c].pc = "s_reselect"
  /\ LET ex == calls[c].ex
     IN calls' = [calls EXCEPT ![c] =
          IF HasRow(ex) THEN [@ EXCEPT !.pc = "s_spawn", !.rec = ex, !.ex = 0]
                        ELSE Done(@, "TypeError")]
  /\ UNCHANGED <<downloads, nextId, localZims, activeProcesses, procs,
                 ncalls, restarts, downloadFolder, files, mirror>>

\* spawnWget (234-246): spawn, then activeProcesses.set(downloadId, wget).
\* spawn yields a process with a pid, or none when the program cannot run.
SpawnWget(id, b, path, st) ==
  /\ procs' = Append(procs, NewProc(id, b, path, MetaFileName(b), st))
  /\ activeProcesses' = MapSet(id, Len(procs) + 1)

\* spawnWget(...); return downloadRecord (218-226)
StartSpawn(c) ==
  /\ Settled
  /\ calls[c].pc = "s_spawn"
  /\ \E st \in {"running", "nopid"} :
       SpawnWget(calls[c].rec, calls[c].book, calls[c].path, st)
  /\ calls' = [calls EXCEPT ![c] = Done([@ EXCEPT !.proc = Len(procs) + 1], "ok")]
  /\ UNCHANGED <<downloads, nextId, localZims, ncalls, restarts, downloadFolder, files, mirror>>

\* The call returns to its caller, which may then issue another one.  A
\* call that has reached its end returns before anything else happens:
\* the state with pc = "done" is the moment the call returns.
Return(c) ==
  /\ calls[c].pc = "done"
  /\ calls' = [calls EXCEPT ![c] = IdleCall]
  /\ UNCHANGED <<downloads, nextId, localZims, activeProcesses, procs,
                 ncalls, restarts, downloadFolder, files, mirror>>

\* ------------------------------------------------------- pauseDownload
PauseDownload_Unregister(c, id) ==
  /\ MayInvoke(c)
  /\ KnownId(id)
  /\ LET p == MapGet(id)
     IN IF p # 0 /\ HasPid(p)
          THEN /\ procs' = Kill(p, "SIGSTOP")
               /\ activeProcesses' = MapDelete(id)
               /\ calls' = [calls EXCEPT ![c] =
                    [Invoked(c, "pause", id) EXCEPT !.pc = "p_write", !.proc = p,
                                                    !.was = procs[p].state]]
          ELSE /\ procs' = procs
               /\ activeProcesses' = activeProcesses
               /\ calls' = [calls EXCEPT ![c] = Done(Invoked(c, "pause", id), "ok")]
  /\ ncalls' = ncalls + 1
  /\ UNCHANGED <<downloads, nextId, localZims, restarts, downloadFolder, files, mirror>>

PauseDownload_Always(c, id) ==
  /\ MayInvoke(c)
  /\ KnownId(id)
  /\ LET p == MapGet(id)
     IN /\ procs' = IF p # 0 THEN Kill(p, "SIGSTOP") ELSE procs
        /\ calls' = [calls EXCEPT ![c] =
             [Invoked(c, "pause", id) EXCEPT !.pc = "p_write", !.proc = p]]
  /\ ncalls' = ncalls + 1
  /\ UNCHANGED <<downloads, nextId, localZims, activeProcesses, restarts, downloadFolder, files, mirror>>

\* activeProcesses.get, process.kill("SIGSTOP") (359-362)
PauseDownload(c, id) ==
  /\ MayInvoke(c)
  /\ KnownId(id)
  /\ LET p == MapGet(id)
     IN IF p # 0 /\ HasPid(p)
          THEN /\ procs' = Kill(p, "SIGSTOP")
               /\ calls' = [calls EXCEPT ![c] =
                    [Invoked(c, "pause", id) EXCEPT !.pc = "p_write", !.proc = p,
                                                    !.was = procs[p].state]]
          ELSE /\ procs' = procs
               /\ calls' = [calls EXCEPT ![c] = Done(Invoked(c, "pause", id), "ok")]
  /\ ncalls' = ncalls + 1
  /\ UNCHANGED <<downloads, nextId, localZims, activeProcesses, restarts, downloadFolder, files, mirror>>

\* update status = "paused" (363-366)
PauseWrite(c) ==
  /\ Settled
  /\ calls[c].pc = "p_write"
  /\ downloads' = SetStatus(downloads, calls[c].id, "paused")
  /\ calls' = [calls EXCEPT ![c] = Done(@, "ok")]
  /\ UNCHANGED <<nextId, localZims, activeProcesses, procs, ncalls, restarts, downloadFolder, files, mirror>>

\* ------------------------------------------------------ resumeDownload
ResumeDownload_Silent(c, id) ==
  /\ MayInvoke(c)
  /\ KnownId(id)
  /\ MaySpawn
  /\ calls' = [calls EXCEPT ![c] =
       IF HasRow(id)
         THEN [Invoked(c, "resume", id) EXCEPT !.pc = "r_signal",
                                               !.book = Row(id).bookId]
         ELSE Done(Invoked(c, "resume", id), "ok")]
  /\ ncalls' = ncalls + 1
  /\ UNCHANGED <<downloads, nextId, localZims, activeProcesses, procs,
                 restarts, downloadFolder, files, mirror>>

\* the row lookup and the NotFound test (371-379)
ResumeDownload(c, id) ==
  /\ MayInvoke(c)
  /\ KnownId(id)
  /\ MaySpawn
  /\ calls' = [calls EXCEPT ![c] =
       IF HasRow(id)
         THEN [Invoked(c, "resume", id) EXCEPT !.pc = "r_signal",
                                               !.book = Row(id).bookId]
         ELSE Done(Invoked(c, "resume", id), "NotFound")]
  /\ ncalls' = ncalls + 1
  /\ UNCHANGED <<downloads, nextId, localZims, activeProcesses, procs, restarts, downloadFolder, files, mirror>>

\* activeProcesses.get, process.kill("SIGCONT"), or the fallback to
\* startDownload(bookId) (381-384, 389-391)
ResumeSignal(c) ==
  /\ Settled
  /\ calls[c].pc = "r_signal"
  /\ LET p == MapGet(calls[c].id)
     IN IF p # 0 /\ HasPid(p)
          THEN /\ procs' = Kill(p, "SIGCONT")
               /\ calls' = [calls EXCEPT ![c].pc = "r_write", ![c].proc = p,
                                         ![c].was = procs[p].state,
                                         ![c].book = Null]
          ELSE /\ procs' = procs
               /\ \E kb \in AvailKBs, ok \in BOOLEAN :
                    calls' = WithStart(c, calls[c].book,
                               EnterStart(calls[c], calls[c].book, kb, ok))
  /\ UNCHANGED <<downloads, nextId, localZims, activeProcesses, ncalls, restarts, downloadFolder, files, mirror>>

\* update status = "downloading" (385-388)
ResumeWrite(c) ==
  /\ Settled
  /\ calls[c].pc = "r_write"
  /\ downloads' = SetStatus(downloads, calls[c].id, "downloading")
  /\ calls' = [calls EXCEPT ![c] = Done(@, "ok")]
  /\ UNCHANGED <<nextId, localZims, activeProcesses, procs, ncalls, restarts, downloadFolder, files, mirror>>

\* ------------------------------------------- cancelDownload, deleteDownload
CancelBegin_KeepHandle(c, id, op) ==
  /\ MayInvoke(c)
  /\ KnownId(id)
  /\ LET p == MapGet(id)
     IN IF p # 0
          THEN /\ procs' = Kill(p, "SIGTERM")
               /\ calls' = [calls EXCEPT ![c] =
                    [Invoked(c, op, id) EXCEPT !.pc = "k_write", !.proc = p,
                                               !.was = procs[p].state]]
          ELSE /\ procs' = procs
               /\ calls' = [calls EXCEPT ![c] =
                    [Invoked(c, op, id) EXCEPT !.pc = "k_write"]]
  /\ ncalls' = ncalls + 1
  /\ UNCHANGED <<downloads, nextId, localZims, activeProcesses, restarts, downloadFolder, files, mirror>>

\* activeProcesses.get, process.kill("SIGTERM"), activeProcesses.delete
\* (396-400); deleteDownload begins with the same code (464)
CancelBegin(c, id, op) ==
  /\ MayInvoke(c)
  /\ KnownId(id)
  /\ LET p == MapGet(id)
     IN IF p # 0
          THEN /\ procs' = Kill(p, "SIGTERM")
               /\ activeProcesses' = MapDelete(id)
               /\ calls' = [calls EXCEPT ![c] =
                    [Invoked(c, op, id) EXCEPT !.pc = "k_write", !.proc = p,
                                               !.was = procs[p].state]]
          ELSE /\ procs' = procs
               /\ activeProcesses' = activeProcesses
               /\ calls' = [calls EXCEPT ![c] =
                    [Invoked(c, op, id) EXCEPT !.pc = "k_write"]]
  /\ ncalls' = ncalls + 1
  /\ UNCHANGED <<downloads, nextId, localZims, restarts, downloadFolder, files, mirror>>

CancelDownload(c, id) == CancelBegin(c, id, "cancel")

DeleteDownload(c, id) == CancelBegin(c, id, "delete")

CancelWrite_Once(c) ==
  /\ Settled
  /\ calls[c].pc = "k_write"
  /\ LET again == HasRow(calls[c].id) /\ Row(calls[c].id).status = "failed"
     IN /\ downloads' = IF again THEN downloads
                        ELSE SetFailed(downloads, calls[c].id, "Cancelled by user")
        /\ calls' = [calls EXCEPT ![c] =
             IF again THEN Done(@, "AlreadyCancelled")
             ELSE IF @.op = "delete" THEN [@ EXCEPT !.pc = "d_delete"]
             ELSE Done(@, "ok")]
  /\ UNCHANGED <<nextId, localZims, activeProcesses, procs, ncalls, restarts, downloadFolder, files, mirror>>

\* update status = "failed", error = "Cancelled by user" (402-409)
CancelWrite(c) ==
  /\ Settled
  /\ calls[c].pc = "k_write"
  /\ downloads' = SetFailed(downloads, calls[c].id, "Cancelled by user")
  /\ calls' = [calls EXCEPT ![c] =
       IF @.op = "delete" THEN [@ EXCEPT !.pc = "d_delete"] ELSE Done(@, "ok")]
  /\ UNCHANGED <<nextId, localZims, activeProcesses, procs, ncalls, restarts, downloadFolder, files, mirror>>

DeleteRow_Keep(c) ==
  /\ Settled
  /\ calls[c].pc = "d_delete"
  /\ downloads' = downloads
  /\ calls' = [calls EXCEPT ![c] = Done(@, "ok")]
  /\ UNCHANGED <<nextId, localZims, activeProcesses, procs, ncalls, restarts, downloadFolder, files, mirror>>

\* db.delete(downloads).where(eq(downloads.id, downloadId)) (465)
DeleteRow(c) ==
  /\ Settled
  /\ calls[c].pc = "d_delete"
  /\ downloads' = {r \in downloads : r.id # calls[c].id}
  /\ calls' = [calls EXCEPT ![c] = Done(@, "ok")]
  /\ UNCHANGED <<nextId, localZims, activeProcesses, procs, ncalls, restarts, downloadFolder, files, mirror>>

\* ------------------------------------------------ the external process
\* the downloader ends by itself: with exit code 0, the file written to
\* its end (-c: a file at least that long is left as it is), or with
\* another exit code
ProcExit(p) ==
  /\ Settled
  /\ p \in DOMAIN procs
  /\ procs[p].state = "running"
  /\ \E code \in {"0", "1"} :
       /\ procs' = [procs EXCEPT ![p].state = "exited", ![p].code = code]
       /\ files' =
            IF code = "0" /\ \A n \in StatSize(procs[p].path) :
                               n < ZimBytes(procs[p].book)
              THEN Written(procs[p].path, ZimBytes(procs[p].book))
              ELSE files
  /\ UNCHANGED <<downloads, nextId, localZims, activeProcesses, calls,
                 ncalls, restarts, downloadFolder, mirror>>

\* a process whose handlers have run
Closed(pr) ==
  [pr EXCEPT !.state = "closed", !.code = Null, !.term = FALSE,
             !.pc = "none", !.seen = Null, !.stats = {}]

\* wget.on("close"): activeProcesses.delete(downloadId); code === 0:
\* stats = await stat(outputPath).catch(() => null) (278-282)
CloseBegin(p) ==
  /\ Settled
  /\ p \in DOMAIN procs
  /\ procs[p].state = "exited"
  /\ procs[p].pc = "none"
  /\ activeProcesses' = MapDelete(procs[p].id)
  /\ procs' = [procs EXCEPT
       ![p].pc = IF procs[p].code = "0" THEN "c_complete" ELSE "c_select",
       ![p].stats = IF procs[p].code = "0" THEN StatSize(procs[p].path)
                    ELSE {}]
  /\ UNCHANGED <<downloads, nextId, localZims, calls, ncalls, restarts, downloadFolder, files, mirror>>

SetCompleted_NoDate(rows, id, stats, totalBytes) ==
  {IF r.id = id
     THEN [r EXCEPT !.status = "completed",
                    !.bytesDownloaded =
                       IF stats = {} THEN totalBytes
                       ELSE BigOf(CHOOSE n \in stats : TRUE)]
     ELSE r : r \in rows}

\* update status = "completed", bytesDownloaded = stats?.size ??
\* totalBytes, completedAt (283-292); totalBytes: the requiredBytes that
\* startDownload passed to spawnWget
SetCompleted(rows, id, stats, totalBytes) ==
  {IF r.id = id
     THEN [r EXCEPT !.status = "completed", !.completedAt = "set",
                    !.bytesDownloaded =
                       IF stats = {} THEN totalBytes
                       ELSE BigOf(CHOOSE n \in stats : TRUE)]
     ELSE r : r \in rows}

CloseComplete(p) ==
  /\ Settled
  /\ p \in DOMAIN procs
  /\ procs[p].pc = "c_complete"
  /\ downloads' = SetCompleted(downloads, procs[p].id, procs[p].stats,
                               RequiredBytes(procs[p].book))
  /\ procs' = [procs EXCEPT ![p].pc = "c_local"]
  /\ UNCHANGED <<nextId, localZims, activeProcesses, calls, ncalls, restarts, downloadFolder, files, mirror>>

\* select().from(localZims).where(eq(localZims.filePath, outputPath)) (295-299)
CloseSelectLocal(p) ==
  /\ Settled
  /\ p \in DOMAIN procs
  /\ procs[p].pc = "c_local"
  /\ procs' = [procs EXCEPT ![p].pc = "c_localwrite", ![p].seen =
       IF \E z \in localZims : z.filePath = procs[p].path
         THEN "found" ELSE "none"]
  /\ UNCHANGED <<downloads, nextId, localZims, activeProcesses, calls,
                 ncalls, restarts, downloadFolder, files, mirror>>

\* update or insert the local library row (301-323); filePath is unique,
\* so an insert that meets a row of the same path is refused
WriteLocal(zims, pr) ==
  IF pr.seen = "found"
    THEN {IF z.filePath = pr.path
            THEN [z EXCEPT !.bookId = pr.book,
                           !.catalogDate = Catalog[pr.book].date]
            ELSE z : z \in zims}
  ELSE IF \E z \in zims : z.filePath = pr.path
    THEN zims
  ELSE zims \cup {[filePath |-> pr.path, fileName |-> pr.name,
                   bookId |-> pr.book,
                   catalogDate |-> Catalog[pr.book].date]}

CloseWriteLocal(p) ==
  /\ Settled
  /\ p \in DOMAIN procs
  /\ procs[p].pc = "c_localwrite"
  /\ localZims' = WriteLocal(localZims, procs[p])
  /\ procs' = [procs EXCEPT ![p] = Closed(@)]
  /\ UNCHANGED <<downloads, nextId, activeProcesses, calls, ncalls, restarts, downloadFolder, files, mirror>>

\* the row lookup of a failing exit (326-330)
CloseSelect(p) ==
  /\ Settled
  /\ p \in DOMAIN procs
  /\ procs[p].pc = "c_select"
  /\ procs' = [procs EXCEPT ![p].pc = "c_fail", ![p].seen =
       IF HasRow(procs[p].id) THEN Row(procs[p].id).status ELSE "undefined"]
  /\ UNCHANGED <<downloads, nextId, localZims, activeProcesses, calls,
                 ncalls, restarts, downloadFolder, files, mirror>>

\* the error text of a failing exit
ExitError(code) == "wget exited with code " \o code

CloseFail_Always(p) ==
  /\ Settled
  /\ p \in DOMAIN procs
  /\ procs[p].pc = "c_fail"
  /\ downloads' = SetFailed(downloads, procs[p].id, ExitError(procs[p].code))
  /\ procs' = [procs EXCEPT ![p] = Closed(@)]
  /\ UNCHANGED <<nextId, localZims, activeProcesses, calls, ncalls, restarts, downloadFolder, files, mirror>>

\* download[0]?.status !== "paused": update status = "failed" (332-341)
CloseFail(p) ==
  /\ Settled
  /\ p \in DOMAIN procs
  /\ procs[p].pc = "c_fail"
  /\ downloads' =
       IF procs[p].seen # "paused"
         THEN SetFailed(downloads, procs[p].id, ExitError(procs[p].code))
         ELSE downloads
  /\ procs' = [procs EXCEPT ![p] = Closed(@)]
  /\ UNCHANGED <<nextId, localZims, activeProcesses, calls, ncalls, restarts, downloadFolder, files, mirror>>

\* wget.on("error"): activeProcesses.delete(downloadId) (345-346)
ErrorBegin(p) ==
  /\ Settled
  /\ p \in DOMAIN procs
  /\ procs[p].state = "nopid"
  /\ procs[p].pc = "none"
  /\ activeProcesses' = MapDelete(procs[p].id)
  /\ procs' = [procs EXCEPT ![p].pc = "e_write"]
  /\ UNCHANGED <<downloads, nextId, localZims, calls, ncalls, restarts, downloadFolder, files, mirror>>

ErrorWrite_UnlessFailed(p) ==
  /\ Settled
  /\ p \in DOMAIN procs
  /\ procs[p].pc = "e_write"
  /\ downloads' =
       IF HasRow(procs[p].id) /\ Row(procs[p].id).status = "failed"
         THEN downloads
         ELSE SetFailed(downloads, procs[p].id, "spawn wget ENOENT")
  /\ procs' = [procs EXCEPT ![p].state = "exited", ![p].code = "-2",
                            ![p].pc = "none"]
  /\ UNCHANGED <<nextId, localZims, activeProcesses, calls, ncalls, restarts, downloadFolder, files, mirror>>

\* update status = "failed", error = err.message (347-354).  The close
\* event of a process that could not be spawned follows its error event,
\* with the negative error number as exit code.
ErrorWrite(p) ==
  /\ Settled
  /\ p \in DOMAIN procs
  /\ procs[p].pc = "e_write"
  /\ downloads' = SetFailed(downloads, procs[p].id, "spawn wget ENOENT")
  /\ procs' = [procs EXCEPT ![p].state = "exited", ![p].code = "-2",
                            ![p].pc = "none"]
  /\ UNCHANGED <<nextId, localZims, activeProcesses, calls, ncalls, restarts, downloadFolder, files, mirror>>

\* --------------------------------------------------------------- restart
\* The manager process ends and starts again: the registry is a module
\* level Map (85) and starts empty, the calls and handlers in flight are
\* gone, the tables persist.
Gone(pr) ==
  IF pr.state = "closed" THEN [pr EXCEPT !.sample = {}]
  ELSE [pr EXCEPT !.state = "gone", !.code = Null, !.term = FALSE,
                  !.pc = "none", !.seen = Null, !.stats = {}]

Restart ==
  /\ Settled
  /\ restarts < MaxRestarts
  /\ restarts' = restarts + 1
  /\ activeProcesses' = [x \in {} |-> 0]
  /\ calls' = [c \in Callers |-> IdleCall]
  /\ procs' = [p \in DOMAIN procs |-> Gone(procs[p])]
  /\ UNCHANGED <<downloads, nextId, localZims, ncalls, downloadFolder, files, mirror>>

\* -------------------------------------------------------------- settings
\* setSetting("downloadFolder", dir) (32-43), called by the settings route.
\* The setting is changed at most once: away from its default.
SetSetting(dir) ==
  /\ Settled
  /\ downloadFolder = DefaultDownloadFolder
  /\ dir # downloadFolder
  /\ downloadFolder' = dir
  /\ UNCHANGED <<downloads, nextId, localZims, activeProcesses, procs, calls,
                 ncalls, restarts, files, mirror>>

\* ------------------------------------------------- the progress sampler
\* the downloader writes: the file is created, then grows
WgetWrite(p) ==
  /\ Settled
  /\ p \in DOMAIN procs
  /\ procs[p].state = "running"
  /\ \E n \in PartSizes(procs[p].book) :
       /\ \A m \in StatSize(procs[p].path) : m < n
       /\ files' = Written(procs[p].path, n)
  /\ UNCHANGED <<downloads, nextId, localZims, activeProcesses, procs, calls,
                 ncalls, restarts, downloadFolder, mirror>>

\* wget.stderr.on("data"): stat(outputPath) (257-265).  The downloader
\* reports until its streams close; sample: the outcome of the stat not
\* yet handled, <<>> for an error, <<n>> for the size n (one at a time).
SampleStat(p) ==
  /\ Settled
  /\ p \in DOMAIN procs
  /\ procs[p].state \in {"running", "stopped", "exited"}
  /\ procs[p].pc = "none"
  /\ procs[p].sample = {}
  /\ procs' = [procs EXCEPT ![p].sample =
       {IF procs[p].path \in DOMAIN files THEN <<files[procs[p].path]>>
        ELSE <<>>}]
  /\ UNCHANGED <<downloads, nextId, localZims, activeProcesses, calls,
                 ncalls, restarts, downloadFolder, files, mirror>>

SetBytes_Downloading(rows, id, n) ==
  {IF r.id = id
     THEN [r EXCEPT !.bytesDownloaded = BigOf(n), !.status = "downloading"]
     ELSE r : r \in rows}

\* update(downloads).set({ bytesDownloaded: stats.size }) (266-269)
SetBytes(rows, id, n) ==
  {IF r.id = id THEN [r EXCEPT !.bytesDownloaded = BigOf(n)] ELSE r :
     r \in rows}

SampleWrite_Fail(p) ==
  /\ Settled
  /\ p \in DOMAIN procs
  /\ procs[p].sample # {}
  /\ \E o \in procs[p].sample :
       downloads' = IF o = <<>>
                      THEN SetFailed(downloads, procs[p].id, "ENOENT")
                      ELSE SetBytes(downloads, procs[p].id, o[1])
  /\ procs' = [procs EXCEPT ![p].sample = {}]
  /\ UNCHANGED <<nextId, localZims, activeProcesses, calls, ncalls, restarts,
                 downloadFolder, files, mirror>>

\* .then(stats => update ...) and .catch(() => {}) (265-274): a stat
\* error is ignored
SampleWrite(p) ==
  /\ Settled
  /\ p \in DOMAIN procs
  /\ procs[p].sample # {}
  /\ \E o \in procs[p].sample :
       downloads' = IF o = <<>> THEN downloads
                    ELSE SetBytes(downloads, procs[p].id, o[1])
  /\ procs' = [procs EXCEPT ![p].sample = {}]
  /\ UNCHANGED <<nextId, localZims, activeProcesses, calls, ncalls, restarts,
                 downloadFolder, files, mirror>>

\* --------------------------------------------------- getDownloadProgress
\* percentage = totalBytes > 0 ? (bytesDownloaded / totalBytes) * 100 : 0
\* (437): the quotient is kept as its two terms, 0 as 0 of 1
Percentage(bytes, total) ==
  IF total # BigOf(0) THEN [num |-> bytes, den |-> total]
  ELSE [num |-> BigOf(0), den |-> BigOf(1)]

\* the DownloadProgress returned (439-448)
Progress(d, bytes) ==
  [id |-> d.id, bookId |-> d.bookId, status |-> d.status,
   bytesDownloaded |-> bytes, totalBytes |-> d.totalBytes,
   percentage |-> Percentage(bytes, d.totalBytes),
   filePath |-> d.filePath, error |-> d.error]

\* getDownloadProgress up to the stat (412-428): the row is selected,
\* null when there is none; progress holds the answer as it stands
GetDownloadProgress(c, id) ==
  /\ MayInvoke(c)
  /\ KnownId(id)
  /\ ncalls' = ncalls + 1
  /\ calls' = [calls EXCEPT ![c] =
       IF ~HasRow(id) THEN Done(Invoked(c, "progress", id), "null")
       ELSE LET d == Row(id)
                call == [Invoked(c, "progress", id) EXCEPT
                           !.progress = {Progress(d, d.bytesDownloaded)}]
            IN IF d.status = "downloading"
                 THEN [call EXCEPT !.pc = "g_stat"]
                 ELSE Done(call, "ok")]
  /\ UNCHANGED <<downloads, nextId, localZims, activeProcesses, procs,
                 restarts, downloadFolder, files, mirror>>

ProgressStat_Stored(c) ==
  /\ Settled
  /\ calls[c].pc = "g_stat"
  /\ calls' = [calls EXCEPT ![c] = Done(@, "ok")]
  /\ UNCHANGED <<downloads, nextId, localZims, activeProcesses, procs,
                 ncalls, restarts, downloadFolder, files, mirror>>

\* stats = await stat(d.filePath): bytesDownloaded = stats.size, the
\* stored value when the stat fails (428-434)
ProgressStat(c) ==
  /\ Settled
  /\ calls[c].pc = "g_stat"
  /\ calls' = [calls EXCEPT ![c] =
       LET d == CHOOSE x \in @.progress : TRUE
       IN Done([@ EXCEPT !.progress =
                  IF d.filePath \in DOMAIN files
                    THEN {[d EXCEPT !.bytesDownloaded = BigOf(files[d.filePath]),
                                    !.percentage =
                                       Percentage(BigOf(files[d.filePath]),
                                                  d.totalBytes)]}
                    ELSE {d}], "ok")]
  /\ UNCHANGED <<downloads, nextId, localZims, activeProcesses, procs,
                 ncalls, restarts, downloadFolder, files, mirror>>

\* -------------------------------------------------------- specifications
CallStep(c) ==
  \/ \E b \in BookIds : StartDownload(c, b)
  \/ StartExisting(c)
  \/ StartWrite(c)
  \/ StartReselect(c)
  \/ StartSpawn(c)
  \/ \E id \in Ids : PauseDownload(c, id)
  \/ PauseWrite(c)
  \/ \E id \in Ids : ResumeDownload(c, id)
  \/ ResumeSignal(c)
  \/ ResumeWrite(c)
  \/ \E id \in Ids : CancelDownload(c, id)
  \/ \E id \in Ids : DeleteDownload(c, id)
  \/ CancelWrite(c)
  \/ DeleteRow(c)
  \/ Return(c)

HandlerStep(p) ==
  \/ CloseBegin(p)
  \/ CloseComplete(p)
  \/ CloseSelectLocal(p)
  \/ CloseWriteLocal(p)
  \/ CloseSelect(p)
  \/ CloseFail(p)
  \/ ErrorBegin(p)
  \/ ErrorWrite(p)

Next ==
  \/ \E c \in Callers : CallStep(c)
  \/ \E p \in ProcIds : HandlerStep(p)
  \/ \E p \in ProcIds : ProcExit(p)
  \/ Restart
  \/ \E dir \in Folders : SetSetting(dir)

Spec == Init /\ [][Next]_vars

\* no operation and no handler is part-way through its steps
Quiescent ==
  /\ \A c \in Callers : calls[c].pc = "idle"
  /\ \A p \in DOMAIN procs : procs[p].pc = "none"

\* c (a caller) or p (a process's handler) is the only one under way
OnlyCall(c) ==
  /\ \A d \in Callers \ {c} : calls[d].pc = "idle"
  /\ \A p \in DOMAIN procs : procs[p].pc = "none"

OnlyHandler(p) ==
  /\ p \in DOMAIN procs
  /\ \A c \in Callers : calls[c].pc = "idle"
  /\ \A q \in DOMAIN procs \ {p} : procs[q].pc = "none"

NextSeq ==
  \/ \E c \in Callers : OnlyCall(c) /\ CallStep(c)
  \/ \E p \in ProcIds : OnlyHandler(p) /\ HandlerStep(p)
  \/ \E p \in ProcIds : Quiescent /\ ProcExit(p)
  \/ Quiescent /\ Restart
  \/ \E dir \in Folders : Quiescent /\ SetSetting(dir)

SeqSpec == Init /\ [][NextSeq]_vars

\* An operation that has begun goes on to its end, and an event that has
\* been emitted is handled: the event loop runs every continuation.
ContinueCall(c) ==
  /\ calls[c].pc # "idle"
  /\ OnlyCall(c)
  /\ CallStep(c)

HandleEvent(p) ==
  /\ OnlyHandler(p)
  /\ HandlerStep(p)

FairSeqSpec ==
  /\ Init
  /\ [][NextSeq]_vars
  /\ \A c \in Callers : WF_vars(ContinueCall(c))
  /\ \A p \in ProcIds : WF_vars(HandleEvent(p))

\* the same with the steps of operations and handlers interleaved
StepCall(c) ==
  /\ calls[c].pc # "idle"
  /\ CallStep(c)

FairSpec ==
  /\ Init
  /\ [][Next]_vars
  /\ \A c \in Callers : WF_vars(StepCall(c))
  /\ \A p \in ProcIds : WF_vars(HandlerStep(p))

\* The mirror resolver alone: a metadata document is given and resolved.
MirrorInit ==
  /\ downloads = {}
  /\ nextId = 1
  /\ localZims = {}
  /\ activeProcesses = [x \in {} |-> 0]
  /\ procs = <<>>
  /\ calls = [c \in Callers |-> IdleCall]
  /\ ncalls = 0
  /\ restarts = 0
  /\ downloadFolder = DefaultDownloadFolder
  /\ files = [x \in {} |-> 0]
  /\ mirror \in {[meta |-> m, out |-> <<>>] : m \in Metas}

ResolveMeta4Url ==
  /\ mirror.out = <<>>
  /\ mirror' = [mirror EXCEPT !.out = <<SelectUrl(mirror.meta)>>]
  /\ UNCHANGED <<downloads, nextId, localZims, activeProcesses, procs, calls,
                 ncalls, restarts, downloadFolder, files>>

MirrorSpec == MirrorInit /\ [][ResolveMeta4Url]_vars

\* The downloader with its progress: one operation or handler at a time,
\* the file grows and the sampler runs between any two of their steps.
SamplerStep(p) ==
  \/ WgetWrite(p)
  \/ SampleStat(p)
  \/ SampleWrite(p)

ProgressStep(c) ==
  \/ \E id \in Ids : GetDownloadProgress(c, id)
  \/ ProgressStat(c)

NextByte ==
  \/ \E c \in Callers : OnlyCall(c) /\ CallStep(c)
  \/ \E c \in Callers : OnlyCall(c) /\ ProgressStep(c)
  \/ \E p \in ProcIds : OnlyHandler(p) /\ HandlerStep(p)
  \/ \E p \in ProcIds : Quiescent /\ ProcExit(p)
  \/ \E p \in ProcIds : SamplerStep(p)

ByteSpec == Init /\ [][NextByte]_vars

TypeOK ==
  /\ \A r \in downloads :
       r.status \in {"queued", "downloading", "paused", "completed", "failed"}
  /\ nextId \in 1 .. (MaxCalls + 1)
  /\ DOMAIN activeProcesses \subseteq 1 .. nextId
  /\ Len(procs) <= MaxProcs
  /\ ncalls <= MaxCalls
  /\ downloadFolder \in Folders

\* ================================================================ claims
LiveProcsOf(b) == {p \in DOMAIN procs : procs[p].book = b /\ Live(p)}
DownloadingRows(b) == {r \in RowsOf(b) : r.status = "downloading"}

\* the downloads of book b with a transfer under way
ActiveIds(b) ==
  {r.id : r \in DownloadingRows(b)} \cup {procs[p].id : p \in LiveProcsOf(b)}

\* C1: in every reachable state each bookId has at most one active
\* transfer: at most one download of it is `downloading` or has a live
\* (running or stopped) process, and at most one such process exists.
C1_OneActivePerBook ==
  \A b \in Books :
    /\ Cardinality(ActiveIds(b)) <= 1
    /\ Cardinality(LiveProcsOf(b)) <= 1

RowDownloading(b) ==
  /\ b \in Books
  /\ ExistingFor(b) # 0
  /\ Row(ExistingFor(b)).status = "downloading"

BeginsStart(c) == calls[c].pc = "idle" /\ calls'[c].op = "start"

ManagerState == <<downloads, nextId, activeProcesses, procs>>

PreFailures == {"NotFound", "NoUrl", "InsufficientSpace", "MetaFetchFailed"}

C5_FailedStartNoEffect ==
  [][\A c \in Callers :
       (/\ calls[c].pc # "done"
        /\ calls'[c].pc = "done"
        /\ calls'[c].book # Null
        /\ calls'[c].res \in PreFailures)
       => /\ UNCHANGED ManagerState
          /\ calls'[c].rec = 0
          /\ calls'[c].proc = 0]_vars

C5_Witness ==
  \E c \in Callers :
    /\ calls[c].pc = "done"
    /\ calls[c].op = "start"
    /\ calls[c].res = "InsufficientSpace"
    /\ RowsOf(calls[c].book) # {}

SizeKB(b) == IF Catalog[b].size = {} THEN 0 ELSE CHOOSE x \in Catalog[b].size : TRUE

\* 1_073_741_824
GiB == <<1, 0>>

C7_Admission ==
  \* available = 2_050_000_000, required = 1_000_000_000: rejected
  /\ ~HasEnoughSpace(<<1, 976258176>>, <<0, 1000000000>>)
  \* available = 3_000_000_000, required = 1_000_000_000: accepted
  /\ HasEnoughSpace(<<2, 852516352>>, <<0, 1000000000>>)
  /\ \A c \in Callers :
       /\ calls[c].res = "InsufficientSpace"
          => /\ calls[c].req = KBToBytes(SizeKB(calls[c].book))
             /\ calls[c].avail \in {KBToBytes(kb) : kb \in AvailKBs}
             /\ ~BigGeq(calls[c].avail, BigAdd(calls[c].req, GiB))
       /\ (\/ calls[c].pc \in {"s_existing", "s_write", "s_reselect", "s_spawn"}
           \/ (calls[c].res \in {"MetaFetchFailed", "AlreadyActive", "ok"}
                 /\ calls[c].book # Null))
          => /\ calls[c].req = KBToBytes(SizeKB(calls[c].book))
             /\ BigGeq(calls[c].avail, BigAdd(calls[c].req, GiB))

\* admitted with exactly the margin left
C7_Witness ==
  \E c \in Callers :
    /\ calls[c].pc = "s_existing"
    /\ calls[c].req # <<0, 0>>
    /\ calls[c].avail = BigAdd(calls[c].req, GiB)

\* C8: pause of a `downloading` download whose process runs stops that
\* process, keeps its handle registered and leaves the row `paused`; a
\* resume of it then continues the same process, keeps the handle, spawns
\* nothing and leaves the row `downloading`, the only row of its book.
StatusOf(id) == IF HasRow(id) THEN Row(id).status ELSE "undefined"
RowIds == {r.id : r \in downloads}

C8_PauseResume ==
  [][\A c \in Callers, id \in Ids :
       LET p == MapGet(id)
       IN calls'[c].id = id =>
          /\ (/\ calls[c].pc = "idle" /\ calls'[c].op = "pause"
              /\ p # 0 /\ procs[p].state = "running"
              /\ StatusOf(id) = "downloading")
             => /\ calls'[c].pc = "p_write"
                /\ calls'[c].was = "running"
                /\ procs' = [procs EXCEPT ![p].state = "stopped"]
                /\ UNCHANGED <<activeProcesses, downloads>>
          /\ (/\ calls[c].pc = "p_write" /\ calls'[c].pc = "done"
              /\ calls[c].was = "running")
             => /\ StatusOf(id)' = "paused"
                /\ RowIds' = RowIds
                /\ p = calls[c].proc
                /\ UNCHANGED <<activeProcesses, procs>>
          /\ (/\ calls[c].pc = "r_signal" /\ calls'[c].pc # "r_signal"
              /\ restarts' = restarts
              /\ p # 0 /\ procs[p].state = "stopped")
             => /\ calls'[c].pc = "r_write"
                /\ calls'[c].was = "stopped"
                /\ procs' = [procs EXCEPT ![p].state = "running"]
                /\ UNCHANGED <<activeProcesses, downloads>>
          /\ (/\ calls[c].pc = "r_write" /\ calls'[c].pc = "done"
              /\ calls[c].was = "stopped")
             => /\ StatusOf(id)' = "downloading"
                /\ RowIds' = RowIds
                /\ Cardinality(RowsOf(Row(id).bookId)) = 1
                /\ p = calls[c].proc
                /\ UNCHANGED <<activeProcesses, procs>>]_vars

C8_Witness ==
  \E c \in Callers :
    /\ calls[c].pc = "done"
    /\ calls[c].op = "resume"
    /\ calls[c].was = "stopped"
    /\ Row(calls[c].id).status = "downloading"

\* C9: pauseDownload(id) with no handle registered under id (or one
\* without a pid) returns without error and changes nothing.
NoHandle(id) == MapGet(id) = 0 \/ ~HasPid(MapGet(id))

C10_ResumeFallback ==
  \A c \in Callers :
    (/\ calls[c].pc = "done"
     /\ calls[c].op = "resume"
     /\ calls[c].book # Null
     /\ calls[c].res \notin PreFailures
     /\ MapGet(calls[c].id) \in {0, calls[c].proc})
    => /\ calls[c].res = "ok"
       /\ calls[c].rec = calls[c].id
       /\ Row(calls[c].id).status = "downloading"
       /\ MapGet(calls[c].id) = calls[c].proc
       /\ calls[c].proc = Len(procs)

\* C11: when cancelDownload(id) returns, no handle is registered under
\* id, a process that was registered has been sent SIGTERM (and need not
\* have exited yet), and the row of that id, if there is one, is `failed`
\* with error "Cancelled by user".
Cancelled(id) ==
  /\ HasRow(id)
  /\ Row(id).status = "failed"
  /\ Row(id).error = "Cancelled by user"

C11_CancelPostcondition ==
  \A c \in Callers :
    (calls[c].pc = "done" /\ calls[c].op = "cancel")
    => /\ calls[c].res = "ok"
       /\ ~Registered(calls[c].id)
       /\ HasRow(calls[c].id) => Cancelled(calls[c].id)
       /\ calls[c].was \in {"running", "stopped"}
            => procs[calls[c].proc].term

\* the cancelled process was stopped: it is still alive, and unregistered
C11_Witness ==
  \E c \in Callers :
    /\ calls[c].pc = "done"
    /\ calls[c].op = "cancel"
    /\ calls[c].proc # 0
    /\ procs[calls[c].proc].state = "stopped"
    /\ Cancelled(calls[c].id)

\* C12: cancelDownload(id) in the state a cancelDownload(id) leaves (no
\* handle under id, the row cancelled) sends no signal, does not throw
\* and leaves every row as it is.
C12_CancelIdempotent ==
  [][\A c \in Callers :
       /\ (/\ calls[c].pc = "idle" /\ calls'[c].op = "cancel"
           /\ ~Registered(calls'[c].id))
          => /\ calls'[c].pc = "k_write"
             /\ calls'[c].proc = 0
             /\ UNCHANGED ManagerState
       /\ (/\ calls[c].pc = "k_write" /\ calls[c].op = "cancel"
           /\ calls'[c].pc # "k_write" /\ restarts' = restarts
           /\ Cancelled(calls[c].id))
          => /\ calls'[c].pc = "done"
             /\ calls'[c].res = "ok"
             /\ UNCHANGED ManagerState]_vars

\* a second cancel has returned: the process of that download had been
\* sent SIGTERM before and this call signalled nothing
C12_Witness ==
  \E c \in Callers :
    /\ calls[c].pc = "done"
    /\ calls[c].op = "cancel"
    /\ calls[c].proc = 0
    /\ Cancelled(calls[c].id)
    /\ \E p \in DOMAIN procs : procs[p].id = calls[c].id /\ procs[p].term

\* C13: the reconciliation of an exit with code 0 does not overwrite a
\* `paused` status with `completed`.
C13_PausedNotCompleted ==
  [][\A p \in ProcIds :
       (/\ p \in DOMAIN procs
        /\ procs[p].pc = "c_complete"
        /\ procs'[p].pc = "c_local"
        /\ StatusOf(procs[p].id) = "paused")
       => StatusOf(procs[p].id)' = "paused"]_vars

\* C14: the reconciliation of an exit with code 0 of a `downloading`
\* download unregisters the handle, sets the row `completed` with
\* completedAt, and leaves exactly one local library record of the
\* destination path, with the transfer's bookId, file name and catalog date.
LocalAt(zims, path) == {z \in zims : z.filePath = path}

C14_ExitZero ==
  [][\A p \in ProcIds :
       p \in DOMAIN procs =>
         /\ (/\ procs[p].state = "exited" /\ procs[p].pc = "none"
             /\ procs'[p].pc = "c_complete")
            => ~Registered(procs[p].id)'
         /\ (/\ procs[p].pc = "c_complete" /\ procs'[p].pc = "c_local"
             /\ StatusOf(procs[p].id) = "downloading")
            => /\ Row(procs[p].id)'.status = "completed"
               /\ Row(procs[p].id)'.completedAt # Null
         /\ (procs[p].pc = "c_localwrite" /\ procs'[p].state = "closed")
            => /\ Cardinality(LocalAt(localZims', procs[p].path)) = 1
               /\ \A z \in LocalAt(localZims', procs[p].path) :
                    /\ z.bookId = procs[p].book
                    /\ z.fileName = procs[p].name
                    /\ z.catalogDate = Catalog[procs[p].book].date]_vars

C14_Witness ==
  \E p \in DOMAIN procs :
    /\ procs[p].state = "closed"
    /\ StatusOf(procs[p].id) = "completed"
    /\ ~Registered(procs[p].id)
    /\ LocalAt(localZims, procs[p].path) # {}

\* C15: the reconciliation of an exit with another code unregisters the
\* handle; a row that is `paused` then is left as it is, any other row
\* becomes `failed` with an error naming the code.
C15_ExitNonZero ==
  [][\A p \in ProcIds :
       p \in DOMAIN procs =>
         /\ (/\ procs[p].state = "exited" /\ procs[p].pc = "none"
             /\ procs'[p].pc = "c_select")
            => ~Registered(procs[p].id)'
         /\ (procs[p].pc = "c_fail" /\ procs'[p].state = "closed")
            => IF StatusOf(procs[p].id) = "paused"
                 THEN downloads' = downloads
                 ELSE HasRow(procs[p].id) =>
                        /\ Row(procs[p].id)'.status = "failed"
                        /\ Row(procs[p].id)'.error = ExitError(procs[p].code)]_vars

\* an exit with a non-zero code has been reconciled and the row is paused
C15_Witness ==
  \E p \in DOMAIN procs :
    /\ procs[p].state = "closed"
    /\ StatusOf(procs[p].id) = "paused"
    /\ ~Registered(procs[p].id)

C17_StatusGuard ==
  [][\A c \in Callers, id \in Ids :
       calls'[c].id = id =>
         /\ (/\ calls[c].pc = "idle" /\ calls'[c].op = "pause"
             /\ StatusOf(id) = "paused")
            => /\ calls'[c].pc = "done"
               /\ calls'[c].was = Null
               /\ UNCHANGED ManagerState
         /\ (/\ calls[c].pc = "r_signal" /\ calls'[c].pc # "r_signal"
             /\ restarts' = restarts
             /\ StatusOf(id) = "downloading"
             /\ MapGet(id) # 0 /\ Live(MapGet(id)))
            => /\ calls'[c].pc = "done"
               /\ calls'[c].was = Null
               /\ UNCHANGED ManagerState]_vars

\* C18: without a restart, whenever no operation and no handler is under
\* way and no exit or error event is waiting, every `downloading` row has
\* a live process registered under its id and every registered handle
\* belongs to a row that is `downloading` or `paused`.
NoEventPending ==
  \A p \in DOMAIN procs : procs[p].state \notin {"exited", "nopid"}

C18_RegistryAgrees ==
  (restarts = 0 /\ Quiescent /\ NoEventPending)
  => /\ \A r \in downloads :
          r.status = "downloading"
            => MapGet(r.id) # 0 /\ Live(MapGet(r.id))
     /\ \A id \in DOMAIN activeProcesses :
          StatusOf(id) \in {"downloading", "paused"}

\* C19: no two live processes of downloads of different bookIds write to
\* the same destination path.
C19_DistinctPaths ==
  \A p, q \in DOMAIN procs :
    (/\ p # q
     /\ Live(p) /\ Live(q)
     /\ procs[p].book # procs[q].book)
    => procs[p].path # procs[q].path

StatusEdges ==
  {<<"downloading", "paused">>, <<"paused", "downloading">>,
   <<"downloading", "completed">>, <<"downloading", "failed">>,
   <<"paused", "failed">>, <<"failed", "downloading">>}

C21_StatusEdges ==
  [][\A r \in downloads : \A n \in downloads' :
       (n.id = r.id /\ n.status # r.status)
       => <<r.status, n.status>> \in StatusEdges]_vars

\* C29: resumeDownload(id) of an id without row fails with NotFound,
\* sends no signal, spawns nothing and changes no row.
C29_ResumeNotFound ==
  [][\A c \in Callers :
       (/\ calls[c].pc = "idle"
        /\ calls'[c].op = "resume"
        /\ ~HasRow(calls'[c].id))
       => /\ calls'[c].pc = "done"
          /\ calls'[c].res = "NotFound"
          /\ calls'[c].was = Null
          /\ UNCHANGED ManagerState]_vars

\* a resume of a download that was deleted has returned
C29_Witness ==
  \E c \in Callers :
    /\ calls[c].pc = "done"
    /\ calls[c].op = "resume"
    /\ calls[c].res = "NotFound"
    /\ calls[c].id < nextId
    /\ ~HasRow(calls[c].id)

\* C30: a row has an error exactly when its status is `failed`.
C30_ErrorIffFailed ==
  \A r \in downloads : (r.error # Null) <=> (r.status = "failed")

\* C22: the resolver picks the URL of smallest declared priority (the
\* first of them in document order) when every URL declares one: the
\* second of the priorities 3, 1, 2; it returns a single URL without
\* priority as it is; when no URL declares a priority it returns the first.
Declared(meta) == {i \in DOMAIN meta : meta[i].priority # {}}
Chosen == mirror.out[1]

C22_SmallestPriority ==
  /\ SelectUrl(<<[url |-> 1, priority |-> {3}], [url |-> 2, priority |-> {1}],
                 [url |-> 3, priority |-> {2}]>>) = 2
  /\ SelectUrl(<<[url |-> 1, priority |-> {}]>>) = 1
  /\ mirror.out # <<>> =>
       LET meta == mirror.meta
       IN /\ Declared(meta) = DOMAIN meta =>
               /\ \A i \in DOMAIN meta :
                    PriorityOf(meta[Chosen]) <= PriorityOf(meta[i])
               /\ \A i \in DOMAIN meta :
                    PriorityOf(meta[i]) = PriorityOf(meta[Chosen]) => Chosen <= i
          /\ Declared(meta) = {} => Chosen = 1

\* three URLs without priority have been resolved
C22_Witness ==
  /\ mirror.out = <<1>>
  /\ Len(mirror.meta) = 3
  /\ Declared(mirror.meta) = {}

\* C23: when at least one URL declares a priority, the URL chosen is one
\* that declares a priority.
C23_MissingSortsLast ==
  (mirror.out # <<>> /\ Declared(mirror.meta) # {})
  => Chosen \in Declared(mirror.meta)

\* the sampler of process p handles the outcome of its stat in this step
SamplerWrites(p) ==
  /\ p \in DOMAIN procs
  /\ procs[p].sample # {}
  /\ procs'[p].sample = {}

\* a row without its byte count
SansBytes(r) == [r EXCEPT !.bytesDownloaded = BigOf(0)]

\* C24: the close handler stores the size of the file it observed, and
\* as long as a download stays `completed` its bytesDownloaded is not
\* lowered.
C24_CompletedBytesKept ==
  [][/\ \A q \in ProcIds :
          (q \in DOMAIN procs /\ procs[q].pc = "c_complete"
             /\ procs'[q].pc = "c_local" /\ procs[q].stats # {})
          => \A n \in downloads' :
               n.id = procs[q].id => {n.bytesDownloaded} =
                                     {BigOf(k) : k \in procs[q].stats}
     /\ \A r \in downloads : \A n \in downloads' :
          (n.id = r.id /\ r.status = "completed" /\ n.status = "completed")
          => BigGeq(n.bytesDownloaded, r.bytesDownloaded)]_vars

\* C25: a sampler step changes nothing of any row but bytesDownloaded,
\* and leaves the registry, the local library and the files as they are.
C25_SamplerWritesBytesOnly ==
  [][\A p \in ProcIds : SamplerWrites(p) =>
       /\ {SansBytes(r) : r \in downloads'} = {SansBytes(r) : r \in downloads}
       /\ Cardinality(downloads') = Cardinality(downloads)
       /\ UNCHANGED <<activeProcesses, localZims, files, nextId>>]_vars

\* the sampler has written into a row after it was completed: the row of
\* b1 holds less than the length of its file
C25_Witness ==
  \E r \in downloads :
    /\ r.bookId = "b1"
    /\ r.status = "completed"
    /\ r.bytesDownloaded # BigOf(ZimBytes("b1"))
    /\ \A p \in DOMAIN procs : procs[p].sample = {}

\* C26: a failed stat changes no row, in the sampler and in a progress
\* query; the query returns normally and reports the bytesDownloaded it
\* read from the row.
C26_StatErrorIgnored ==
  [][/\ \A p \in ProcIds :
          (SamplerWrites(p) /\ procs[p].sample = {<<>>})
          => UNCHANGED <<downloads, activeProcesses>>
     /\ \A c \in Callers :
          (calls[c].pc = "idle" /\ calls'[c].op = "progress"
             /\ HasRow(calls'[c].id))
          => /\ \A d \in calls'[c].progress :
                  d.bytesDownloaded = Row(calls'[c].id).bytesDownloaded
             /\ UNCHANGED downloads
     /\ \A c \in Callers :
          (calls[c].pc = "g_stat" /\ calls'[c].pc = "done"
             /\ \A d \in calls[c].progress : d.filePath \notin DOMAIN files)
          => /\ calls'[c].res = "ok"
             /\ calls'[c].progress = calls[c].progress
             /\ UNCHANGED downloads]_vars

\* a query of a `downloading` row whose file does not exist has returned,
\* and a sampler's stat has failed
C26_Witness ==
  /\ \E c \in Callers :
       /\ calls[c].pc = "done"
       /\ calls[c].op = "progress"
       /\ \E d \in calls[c].progress :
            d.status = "downloading" /\ d.filePath \notin DOMAIN files
  /\ \E p \in DOMAIN procs : procs[p].sample = {<<>>}

\* C27: a progress query of a `downloading` row whose file exists
\* reports the size of the file; the percentage is 0 when totalBytes is
\* 0; the answer is null when there is no row; no step of the query
\* changes a table, the registry or a file.
C27_FreshProgress ==
  [][\A c \in Callers :
       /\ (calls[c].pc = "g_stat" /\ calls'[c].pc = "done") =>
            \A d \in calls[c].progress : \A n \in calls'[c].progress :
              d.filePath \in DOMAIN files =>
                n.bytesDownloaded = BigOf(files[d.filePath])
       /\ (calls'[c].op = "progress" /\ calls'[c].pc = "done") =>
            /\ \A n \in calls'[c].progress :
                 n.totalBytes = BigOf(0) => n.percentage.num = BigOf(0)
            /\ calls'[c].res = "ok" => calls'[c].progress # {}
       /\ (calls[c].pc = "idle" /\ calls'[c].op = "progress"
             /\ ~HasRow(calls'[c].id)) =>
            /\ calls'[c].pc = "done"
            /\ calls'[c].res = "null"
            /\ calls'[c].progress = {}
       /\ (calls'[c].op = "progress" /\ calls'[c] # calls[c]
             /\ calls'[c].pc # "idle") =>
            UNCHANGED <<downloads, nextId, localZims, activeProcesses,
                        procs, files>>]_vars

\* a query has reported a size the row does not hold
C27_Witness ==
  \E c \in Callers :
    /\ calls[c].pc = "done"
    /\ calls[c].op = "progress"
    /\ HasRow(calls[c].id)
    /\ \E n \in calls[c].progress :
         /\ n.status = "downloading"
         /\ n.filePath \in DOMAIN files
         /\ n.bytesDownloaded # Row(calls[c].id).bytesDownloaded
         /\ n.bytesDownloaded # BigOf(0)

\* C28: when delete returns, the row of its id is gone and no handle is
\* registered under the id; no step of a process's handlers or sampler
\* adds a row or registers a handle.
EventStep(p) ==
  /\ p \in DOMAIN procs
  /\ procs'[p] # procs[p]
  /\ \A c \in Callers : calls'[c].pc = calls[c].pc /\ calls'[c].op = calls[c].op

C28_DeleteRemoves ==
  [][/\ \A c \in Callers :
          (calls'[c].op = "delete" /\ calls'[c].pc = "done"
             /\ calls[c].pc # "done")
          => /\ ~\E r \in downloads' : r.id = calls'[c].id
             /\ calls'[c].id \notin DOMAIN activeProcesses'
     /\ \A p \in ProcIds : EventStep(p) =>
          /\ {r.id : r \in downloads'} \subseteq RowIds
          /\ DOMAIN activeProcesses' \subseteq DOMAIN activeProcesses]_vars

\* delete has returned while the exit event and a sample of the process
\* it cancelled are still to be handled
C28_Witness ==
  \E c \in Callers : \E p \in DOMAIN procs :
    /\ calls[c].pc = "done"
    /\ calls[c].op = "delete"
    /\ procs[p].id = calls[c].id
    /\ procs[p].state = "exited"
    /\ procs[p].pc = "none"
    /\ procs[p].sample # {}

\* a step of the close or error handler of process p
HandlerStepOf(p) ==
  /\ p \in DOMAIN procs
  /\ procs'[p].pc # procs[p].pc
  /\ restarts' = restarts

\* a later process was spawned for the download of process p
Superseded(p) ==
  \E q \in DOMAIN procs : q > p /\ procs[q].id = procs[p].id

\* C31: the exit or error event of a process that a later process of the
\* same download id has replaced removes no handle from the registry and
\* changes neither status nor error of the row.
C31_OwnProcessOnly ==
  [][\A p \in ProcIds : \A id \in Ids :
       (HandlerStepOf(p) /\ procs[p].id = id /\ Superseded(p))
       => /\ activeProcesses' = activeProcesses
          /\ HasRow(id) =>
               /\ Row(id)'.status = Row(id).status
               /\ Row(id)'.error = Row(id).error]_vars

\* C32: the exit event of a process that cancelDownload terminated leaves
\* the row `failed` with error "Cancelled by user".
C32_CancelledKept ==
  [][\A p \in ProcIds : \A id \in Ids :
       (HandlerStepOf(p) /\ procs[p].id = id /\ procs[p].term
          /\ procs[p].code # "0" /\ Cancelled(id))
       => Cancelled(id)']_vars

\* C33: without a restart, every process that runs or is stopped is the
\* handle registered under its download id or has been sent SIGTERM.
C33_LiveTracked ==
  restarts = 0 =>
    \A p \in DOMAIN procs :
      Live(p) => (MapGet(procs[p].id) = p \/ procs[p].term)

C35_CancelTerminates ==
  \A p \in ProcIds :
    (p \in DOMAIN procs /\ procs[p].term)
    ~> (p \in DOMAIN procs /\ ~Live(p))

\* C36: the filePath of a row equals the output path of the live process
\* registered under the row's id.
C36_FilePathIsOutput ==
  \A p \in DOMAIN procs :
    (Live(p) /\ MapGet(procs[p].id) = p /\ HasRow(procs[p].id))
    => Row(procs[p].id).filePath = procs[p].path

\* the bytes process p has still to write to its file
Remaining(p) ==
  LET have == IF procs[p].path \in DOMAIN files THEN files[procs[p].path]
              ELSE 0
  IN IF have < ZimBytes(procs[p].book) THEN ZimBytes(procs[p].book) - have
     ELSE 0

\* the bytes still to be written by the live processes 1 .. n that write
\* into the download folder
RECURSIVE PendingBytes(_)
PendingBytes(n) ==
  IF n = 0 THEN 0
  ELSE PendingBytes(n - 1)
       + (IF Live(n) /\ procs[n].path = JoinPath(downloadFolder, procs[n].name)
            THEN Remaining(n) ELSE 0)

\* C37: a startDownload spawns its transfer only if the space it found
\* available covers its requiredBytes, the bytes the live processes have
\* still to write, and 1 GiB.
C37_AdmissionCountsActive ==
  [][\A c \in Callers :
       (calls[c].pc = "s_spawn" /\ calls'[c].pc = "done")
       => BigGeq(calls[c].avail,
                 BigAdd(BigAdd(calls[c].req, BigOf(PendingBytes(Len(procs)))),
                        BigOf(1024 * 1024 * 1024)))]_vars

\* everything of the downloads other than id is left as it is: their
\* rows, their registry entries, their processes; a process spawned in
\* the step belongs to id
OthersUntouched(id) ==
  /\ {r \in downloads' : r.id # id} = {r \in downloads : r.id # id}
  /\ \A x \in Ids \ {id} :
       /\ (x \in DOMAIN activeProcesses') <=> (x \in DOMAIN activeProcesses)
       /\ x \in DOMAIN activeProcesses
            => activeProcesses'[x] = activeProcesses[x]
  /\ \A q \in DOMAIN procs : procs[q].id # id => procs'[q] = procs[q]
  /\ \A q \in DOMAIN procs' \ DOMAIN procs : procs'[q].id = id

\* C38: no step of pause(id), resume(id), cancel(id) or delete(id), and
\* no step of the close or error handler of a process of id, changes the
\* row, the registry entry or a process of another download id.
C38_PerDownloadIsolation ==
  [][/\ \A c \in Callers : \A id \in Ids :
          (/\ calls'[c].pc # calls[c].pc
           /\ restarts' = restarts
           /\ (IF calls[c].pc = "idle" THEN calls'[c].op ELSE calls[c].op)
                \in {"pause", "resume", "cancel", "delete"}
           /\ (IF calls[c].pc = "idle" THEN calls'[c].id ELSE calls[c].id) = id)
          => OthersUntouched(id)
     /\ \A p \in ProcIds : \A id \in Ids :
          (HandlerStepOf(p) /\ procs[p].id = id) => OthersUntouched(id)]_vars

\* the exit of process p is reconciled and nothing is under way on its
\* download: the handler has run, the handle of p is not registered, and
\* the row is `completed`, `failed` or `paused` unless a process of the
\* download is live
Reconciled(p) ==
  LET id == procs[p].id
  IN /\ procs[p].state = "closed"
     /\ MapGet(id) # p
     /\ \A c \in Callers : calls[c].pc # "idle" => calls[c].id # id
     /\ HasRow(id) =>
          \/ Row(id).status \in {"completed", "failed", "paused"}
          \/ \E q \in DOMAIN procs : procs[q].id = id /\ Live(q)

====
